---- MODULE Spec2Model ----
(***************************************************************************)
(* Model of the GoDaddy -> GCP Terraform DNS exporter.                     *)
(*                                                                         *)
(* A string is a sequence of one-character strings, so that str.replace,   *)
(* str.rstrip, slicing and concatenation are computed character by         *)
(* character.  A GoDaddy record is a record with the fields type, name,    *)
(* data, ttl and, for MX only, priority.  A Python dict is a sequence of   *)
(* [key, val] entries in insertion order (dicts iterate in insertion       *)
(* order).  One behaviour is one run of export_godaddy_dns_to_tf_file.     *)
(***************************************************************************)
EXTENDS Integers, Sequences, FiniteSets, TLC

VARIABLES
    zone_url,   \* argument of export_godaddy_dns_to_tf_file
    response,   \* what the GoDaddy endpoint answers: RecordList(..) or UnknownDomain
    pc,         \* position of the run inside export_godaddy_dns_to_tf_file
    records,    \* local `records`
    grouped,    \* local `type_to_name_to_records`
    fileOpen,   \* TRUE once open(output_file, "w") has created/truncated the file
    file,       \* blocks written to the output file, in write order
    log         \* logging.warning / logging.info calls, in order

vars == <<zone_url, response, pc, records, grouped, fileOpen, file, log>>

----------------------------------------------------------------------------
(* Bounds of the model *)

\* longest record list the endpoint answers with
MaxRecs == 3

----------------------------------------------------------------------------
(* Generic helpers *)

RECURSIVE SeqsUpTo(_, _)
SeqsUpTo(S, n) ==
    IF n = 0 THEN {<<>>}
    ELSE LET shorter == SeqsUpTo(S, n - 1)
         IN  shorter \cup {Append(s, x) : s \in {t \in shorter : Len(t) = n - 1}, x \in S}

Range(s) == {s[i] : i \in 1..Len(s)}

\* a string of n copies of the character c
Repeat(c, n) == [i \in 1..n |-> c]

\* Python slice s[from : to] with 0-based, end-exclusive, clamped offsets
Slice(s, from, to) ==
    LET hi == IF to > Len(s) THEN Len(s) ELSE to
    IN  IF from >= hi THEN <<>> ELSE SubSeq(s, from + 1, hi)

\* str.replace(old, new) for a one-character old; new is a string (maybe empty)
RECURSIVE Replace(_, _, _)
Replace(s, old, new) ==
    IF s = <<>> THEN <<>>
    ELSE (IF Head(s) = old THEN new ELSE <<Head(s)>>) \o Replace(Tail(s), old, new)

\* str.rstrip(c): drop every trailing c
RECURSIVE RStrip(_, _)
RStrip(s, c) ==
    IF s # <<>> /\ s[Len(s)] = c THEN RStrip(SubSeq(s, 1, Len(s) - 1), c) ELSE s

\* str(n) for a natural number, as the f-strings format priority
RECURSIVE ToDecimal(_)
ToDecimal(n) ==
    LET digit == <<"0", "1", "2", "3", "4", "5", "6", "7", "8", "9">>[(n % 10) + 1]
    IN  IF n < 10 THEN <<digit>> ELSE Append(ToDecimal(n \div 10), digit)

----------------------------------------------------------------------------
(* String literals of the program *)

AT == <<"@">>
DOT == <<".">>
TF_VAR_PREFIX == <<"$", "{", "g", "o", "o", "g", "l", "e", "_", "d", "n", "s", "_",
                   "m", "a", "n", "a", "g", "e", "d", "_", "z", "o", "n", "e", ".">>
TF_VAR_SUFFIX == <<".", "d", "n", "s", "_", "n", "a", "m", "e", "}">>
ESC_QUOTE == <<"\\", "\"">>
TXT_DELIMITER == <<"\\", "\"", " ", "\\", "\"">>

----------------------------------------------------------------------------
(* godaddy_dns_to_gcp_terraform.py: name composition and sanitizing *)

zone_url_to_name(zone) == Replace(RStrip(zone, "."), ".", <<"-">>)

sanitize_tf_resource_name(name) == Replace(Replace(name, ".", <<"-">>), "_", <<>>)

godaddy_to_url(godaddy_attr, zone, is_rrdatas, is_TXT_data, use_terraform_var) ==
    LET suffix == IF use_terraform_var
                  THEN TF_VAR_PREFIX \o zone_url_to_name(zone) \o TF_VAR_SUFFIX
                  ELSE zone
    IN  IF godaddy_attr = AT THEN suffix
        ELSE IF is_rrdatas
             THEN (IF is_TXT_data THEN godaddy_attr ELSE godaddy_attr \o DOT)
             ELSE godaddy_attr \o DOT \o suffix

terraform_zone_stanza(zone) ==
    [kind |-> "google_dns_managed_zone",
     resource |-> zone_url_to_name(zone),
     name |-> zone_url_to_name(zone),
     dns_name |-> zone \o DOT,
     visibility |-> "public"]

----------------------------------------------------------------------------
(* group_records_by_type_name *)

HasKey(d, k) == \E i \in 1..Len(d) : d[i].key = k

Get(d, k) == d[CHOOSE i \in 1..Len(d) : d[i].key = k].val

\* mutant: d[k] = [v] instead of d[k].append(v)
DictAppendMut(d, k, v) ==
    IF HasKey(d, k)
    THEN [i \in 1..Len(d) |-> IF d[i].key = k THEN [key |-> k, val |-> <<v>>] ELSE d[i]]
    ELSE Append(d, [key |-> k, val |-> <<v>>])

\* defaultdict(list)[k].append(v): a new key goes last, an old one keeps its place
DictAppend(d, k, v) ==
    IF HasKey(d, k)
    THEN [i \in 1..Len(d) |-> IF d[i].key = k
                              THEN [key |-> k, val |-> Append(d[i].val, v)]
                              ELSE d[i]]
    ELSE Append(d, [key |-> k, val |-> <<v>>])

RECURSIVE GroupBy(_, _, _)
GroupBy(recs, field, d) ==
    IF recs = <<>> THEN d
    ELSE GroupBy(Tail(recs), field, DictAppend(d, Head(recs)[field], Head(recs)))

group_records_by_type_name(godaddy_records) ==
    LET type_to_records == GroupBy(godaddy_records, "type", <<>>)
    IN  [i \in 1..Len(type_to_records) |->
            [key |-> type_to_records[i].key,
             val |-> GroupBy(type_to_records[i].val, "name", <<>>)]]

----------------------------------------------------------------------------
(* get_ttl *)

\* set([...]) as CPython builds it: a table of 8 slots, a key k (hash(k) = k for
\* these integers) goes to slot k & 7 and, when that slot holds another key, to
\* the slots the perturbed probe sequence visits.  The table is not resized
\* while it holds at most 4 keys.
RECURSIVE PySetProbe(_, _, _, _)
PySetProbe(table, k, i, perturb) ==
    IF table[i + 1] = {} THEN [table EXCEPT ![i + 1] = {k}]
    ELSE IF table[i + 1] = {k} THEN table
    ELSE PySetProbe(table, k, (i * 5 + 1 + (perturb \div 32)) % 8, perturb \div 32)

RECURSIVE PySetOf(_, _)
PySetOf(items, table) ==
    IF items = <<>> THEN table
    ELSE PySetOf(Tail(items), PySetProbe(table, Head(items), Head(items) % 8, Head(items)))

\* list(a_set): the keys in slot order
PySetToList(table) ==
    LET F[i \in 0..Len(table)] ==
            IF i = 0 THEN <<>>
            ELSE IF table[i] = {} THEN F[i - 1]
            ELSE Append(F[i - 1], CHOOSE k \in table[i] : TRUE)
    IN  F[Len(table)]

unique_ttls(godaddy_records) ==
    PySetToList(PySetOf([i \in 1..Len(godaddy_records) |-> godaddy_records[i].ttl],
                        [i \in 1..8 |-> {}]))

get_ttl(godaddy_records) == unique_ttls(godaddy_records)[1]

\* the logging.warning call of get_ttl: what one call appends to the log
get_ttl_log(godaddy_records) ==
    IF Len(unique_ttls(godaddy_records)) > 1
    THEN <<[level |-> "warning", what |-> "multiple_ttls",
            ttl |-> get_ttl(godaddy_records), records |-> godaddy_records]>>
    ELSE <<>>

----------------------------------------------------------------------------
(* The record-set renderers.  A block is the rendered resource, field by field. *)

RecordBlock(godaddy_name, zone, suffix, type, ttl, rrdatas) ==
    [kind |-> "google_dns_record_set",
     resource |-> sanitize_tf_resource_name(
                      godaddy_to_url(godaddy_name, zone, FALSE, FALSE, FALSE)) \o suffix,
     name |-> godaddy_to_url(godaddy_name, zone, FALSE, FALSE, TRUE),
     managed_zone |-> zone_url_to_name(zone),
     type |-> type,
     ttl |-> ttl,
     rrdatas |-> rrdatas]

terraform_A_record_set(godaddy_records, zone) ==
    RecordBlock(godaddy_records[1].name, zone, <<"-", "a">>, "A",
                get_ttl(godaddy_records),
                [i \in 1..Len(godaddy_records) |-> godaddy_records[i].data])

\* mutant: only three or more records raise
MultipleCnameMut(godaddy_records) == Len(godaddy_records) > 2

\* the guard of terraform_CNAME_record_set: raise NotImplementedError
MultipleCname(godaddy_records) == Len(godaddy_records) # 1

terraform_CNAME_record_set(godaddy_records, zone) ==
    LET godaddy_record == godaddy_records[1]
    IN  RecordBlock(godaddy_record.name, zone, <<"-", "c", "n", "a", "m", "e">>, "CNAME",
                    godaddy_record.ttl,
                    <<godaddy_to_url(godaddy_record.data, zone, TRUE, FALSE, TRUE)>>)

\* mutant: a sort that puts a record before the earlier records of equal priority
RECURSIVE SortByPriorityMut(_)
SortByPriorityMut(pas) ==
    IF pas = <<>> THEN <<>>
    ELSE LET sorted == SortByPriorityMut(SubSeq(pas, 1, Len(pas) - 1))
             last == pas[Len(pas)]
             before == SelectSeq(sorted, LAMBDA pa : pa[1] < last[1])
             after == SelectSeq(sorted, LAMBDA pa : pa[1] >= last[1])
         IN  before \o <<last>> \o after

\* list.sort(key=lambda pa: pa[0]): ascending, stable
RECURSIVE SortByPriority(_)
SortByPriority(pas) ==
    IF pas = <<>> THEN <<>>
    ELSE LET sorted == SortByPriority(SubSeq(pas, 1, Len(pas) - 1))
             last == pas[Len(pas)]
             before == SelectSeq(sorted, LAMBDA pa : pa[1] <= last[1])
             after == SelectSeq(sorted, LAMBDA pa : pa[1] > last[1])
         IN  before \o <<last>> \o after

terraform_MX_record_set(godaddy_records, zone) ==
    LET priority_addresses ==
            SortByPriority([i \in 1..Len(godaddy_records) |->
                               <<godaddy_records[i].priority, godaddy_records[i].data>>])
    IN  RecordBlock(godaddy_records[1].name, zone, <<"-", "m", "x">>, "MX",
                    get_ttl(godaddy_records),
                    [i \in 1..Len(priority_addresses) |->
                        ToDecimal(priority_addresses[i][1]) \o <<" ">>
                            \o priority_addresses[i][2] \o DOT])

\* the chunk length of convert_data_for_TXT
ChunkLen == 255

RECURSIVE TxtLoop(_, _, _)
TxtLoop(orig_data, idx, tgt) ==
    IF idx < Len(orig_data)
    THEN LET tgt1 == tgt \o Slice(orig_data, idx, idx + ChunkLen)
             idx1 == idx + ChunkLen
         IN  TxtLoop(orig_data, idx1,
                     IF idx1 < Len(orig_data) THEN tgt1 \o TXT_DELIMITER ELSE tgt1)
    ELSE tgt

convert_data_for_TXT(orig_data) ==
    TxtLoop(ESC_QUOTE \o orig_data \o ESC_QUOTE \o <<"\"">>, 0, <<"\"">>)

terraform_TXT_record_set(godaddy_records, zone) ==
    RecordBlock(godaddy_records[1].name, zone, <<"-", "t", "x", "t">>, "TXT",
                get_ttl(godaddy_records),
                [i \in 1..Len(godaddy_records) |->
                    convert_data_for_TXT(
                        godaddy_to_url(godaddy_records[i].data, zone, TRUE, TRUE, FALSE))])

----------------------------------------------------------------------------
(* Inputs: the zones and the record lists the endpoint may answer with *)

Rec(type, name, data, ttl) == [type |-> type, name |-> name, data |-> data, ttl |-> ttl]

MXRec(name, data, ttl, priority) ==
    [type |-> "MX", name |-> name, data |-> data, ttl |-> ttl, priority |-> priority]

ZONE == <<"e", "x", ".", "c", "o", "m">>

\* what _call_endpoint returns: the JSON list of records, or the JSON object
\* {'code': 'UNKNOWN_DOMAIN', ...}
RecordList(recs) == [is_dict |-> FALSE, code |-> "", body |-> recs]

UnknownDomain == [is_dict |-> TRUE, code |-> "UNKNOWN_DOMAIN", body |-> <<>>]

\* every record type against the apex and one host
MixedTypes ==
    {Rec(t, n, <<"h">>, 300) : t \in {"A", "CNAME", "TXT", "NS", "SRV"}, n \in {AT, <<"w">>}}
        \cup {MXRec(n, <<"h">>, 300, 10) : n \in {AT, <<"w">>}}

\* CNAME records of one host: targets and ttls differ
CnameRecords ==
    {Rec("CNAME", <<"w">>, d, t) : d \in {AT, <<"h">>}, t \in {300, 600}}
        \cup {Rec("A", <<"w">>, <<"1">>, 300)}

\* MX records of the apex: priorities and targets differ
MxRecords == {MXRec(AT, d, 300, p) : d \in {<<"a">>, <<"b">>, <<"c">>}, p \in {10, 20}}

\* records of two types and two hosts whose ttls differ
TtlRecords ==
    {Rec(t, n, <<"h">>, ttl) : t \in {"A", "TXT"}, n \in {AT, <<"w">>},
                               ttl \in {300, 600, 3600}}

\* host labels with the characters the sanitizer touches
NameRecords ==
    {Rec(t, n, <<"h">>, 300) : t \in {"A", "TXT"},
                               n \in {<<"a", "_", "b">>, <<"a", "b">>, <<"a", ".", "b">>,
                                      <<"a", "-", "b">>, <<"_", "d">>}}

\* TXT payloads around the chunk boundaries; one holds a quote
TxtRecords ==
    {Rec("TXT", AT, Repeat("x", n), 300) :
        n \in {0, 1, ChunkLen - 6, ChunkLen - 5, ChunkLen - 4, 2 * ChunkLen - 5,
               2 * ChunkLen - 4}}
        \cup {Rec("TXT", AT, <<"a", "\"", "b">>, 300)}

Universes == {MixedTypes, CnameRecords, MxRecords, TtlRecords, NameRecords, TxtRecords}

----------------------------------------------------------------------------
(* export_godaddy_dns_to_tf_file *)

Init ==
    /\ zone_url = ZONE
    /\ \/ response = UnknownDomain
       \/ \E U \in Universes : \E recs \in SeqsUpTo(U, MaxRecs) :
             response = RecordList(recs)
    /\ pc = "fetch"
    /\ records = <<>>
    /\ grouped = <<>>
    /\ fileOpen = FALSE
    /\ file = <<>>
    /\ log = <<>>

\* records = godaddy_dns.get_domain_dns_records(zone_url)
Fetch ==
    /\ pc = "fetch"
    /\ IF response.is_dict /\ response.code = "UNKNOWN_DOMAIN"
       THEN pc' = "failed" /\ UNCHANGED records
       ELSE pc' = "group" /\ records' = response.body
    /\ UNCHANGED <<zone_url, response, grouped, fileOpen, file, log>>

\* type_to_name_to_records = group_records_by_type_name(records)
Group ==
    /\ pc = "group"
    /\ grouped' = group_records_by_type_name(records)
    /\ pc' = "open"
    /\ UNCHANGED <<zone_url, response, records, fileOpen, file, log>>

\* with open(output_file, "w") as f: f.write(terraform_zone_stanza(zone_url))
OpenAndWriteZone ==
    /\ pc = "open"
    /\ fileOpen' = TRUE
    /\ file' = <<terraform_zone_stanza(zone_url)>>
    /\ pc' = "A"
    /\ UNCHANGED <<zone_url, response, records, grouped, log>>

\* mutant: the groups of a type in reverse order
GroupsOfMut(record_type) ==
    IF HasKey(grouped, record_type)
    THEN LET name_to_records == Get(grouped, record_type)
             n == Len(name_to_records)
         IN  [i \in 1..n |-> name_to_records[n + 1 - i].val]
    ELSE <<>>

\* type_to_name_to_records[record_type].values(), nothing when the type is absent
GroupsOf(record_type) ==
    IF HasKey(grouped, record_type)
    THEN LET name_to_records == Get(grouped, record_type)
         IN  [i \in 1..Len(name_to_records) |-> name_to_records[i].val]
    ELSE <<>>

RECURSIVE Flatten(_)
Flatten(ss) == IF ss = <<>> THEN <<>> ELSE Head(ss) \o Flatten(Tail(ss))

\* the get_ttl warnings of rendering these groups, in order
TtlLogOf(groups) == Flatten([i \in 1..Len(groups) |-> get_ttl_log(groups[i])])

RenderA ==
    /\ pc = "A"
    /\ LET groups == GroupsOf("A")
       IN  /\ file' = file \o [i \in 1..Len(groups) |->
                                  terraform_A_record_set(groups[i], zone_url)]
           /\ log' = log \o TtlLogOf(groups)
    /\ pc' = "CNAME"
    /\ UNCHANGED <<zone_url, response, records, grouped, fileOpen>>

\* the CNAME loop stops at the first group terraform_CNAME_record_set raises on;
\* the exception leaves the with block (the file is closed) and the function
RenderCNAME ==
    /\ pc = "CNAME"
    /\ LET groups == GroupsOf("CNAME")
           raising == {i \in 1..Len(groups) : MultipleCname(groups[i])}
           rendered == IF raising = {} THEN Len(groups)
                       ELSE (CHOOSE i \in raising : \A j \in raising : i <= j) - 1
       IN  /\ file' = file \o [i \in 1..rendered |->
                                  terraform_CNAME_record_set(groups[i], zone_url)]
           /\ pc' = IF raising = {} THEN "MX" ELSE "failed"
    /\ UNCHANGED <<zone_url, response, records, grouped, fileOpen, log>>

RenderMX ==
    /\ pc = "MX"
    /\ LET groups == GroupsOf("MX")
       IN  /\ file' = file \o [i \in 1..Len(groups) |->
                                  terraform_MX_record_set(groups[i], zone_url)]
           /\ log' = log \o TtlLogOf(groups)
    /\ pc' = "TXT"
    /\ UNCHANGED <<zone_url, response, records, grouped, fileOpen>>

RenderTXT ==
    /\ pc = "TXT"
    /\ LET groups == GroupsOf("TXT")
       IN  /\ file' = file \o [i \in 1..Len(groups) |->
                                  terraform_TXT_record_set(groups[i], zone_url)]
           /\ log' = log \o TtlLogOf(groups)
    /\ pc' = "warn"
    /\ UNCHANGED <<zone_url, response, records, grouped, fileOpen>>

\* mutant: NS is not in the list
MigratedOrIgnoredMut == {"A", "CNAME", "MX", "TXT"}

\* the types the warning loop skips
MigratedOrIgnored == {"A", "CNAME", "MX", "NS", "TXT"}

\* the loop over type_to_name_to_records.items(), then logging.info("Wrote file ...")
WarnAndFinish ==
    /\ pc = "warn"
    /\ LET unsupported == SelectSeq(grouped, LAMBDA e : e.key \notin MigratedOrIgnored)
       IN  log' = log \o [i \in 1..Len(unsupported) |->
                             [level |-> "warning", what |-> "no_logic",
                              record_type |-> unsupported[i].key,
                              name_to_records |-> unsupported[i].val]]
                      \o <<[level |-> "info", what |-> "wrote_file"]>>
    /\ pc' = "done"
    /\ UNCHANGED <<zone_url, response, records, grouped, fileOpen, file>>

Next ==
    \/ Fetch
    \/ Group
    \/ OpenAndWriteZone
    \/ RenderA
    \/ RenderCNAME
    \/ RenderMX
    \/ RenderTXT
    \/ WarnAndFinish

Spec == Init /\ [][Next]_vars

----------------------------------------------------------------------------
(* Vocabulary of the properties *)

Input == response.body

\* the run was aborted by the NotImplementedError of terraform_CNAME_record_set
CnameAborted == pc = "failed" /\ ~response.is_dict

\* the run was aborted by the exception of get_domain_dns_records
FetchAborted == pc = "failed" /\ response.is_dict

Grouped == pc \notin {"fetch", "group"} /\ ~FetchAborted

\* the record-set blocks of the file written for one (type, name)
BlocksFor(type, name) ==
    SelectSeq(file, LAMBDA b : /\ b.kind = "google_dns_record_set"
                               /\ b.type = type
                               /\ b.name = godaddy_to_url(name, zone_url, FALSE, FALSE, TRUE))

\* the records of the input with one (type, name), in input order
Members(type, name) == SelectSeq(Input, LAMBDA r : r.type = type /\ r.name = name)

\* the (type, name) pairs of one type in the order the names first appear in the input
FirstAppearances(type) ==
    LET F[i \in 0..Len(Input)] ==
            IF i = 0 THEN <<>>
            ELSE IF /\ Input[i].type = type
                    /\ \A j \in 1..(i - 1) :
                          ~(Input[j].type = type /\ Input[j].name = Input[i].name)
                 THEN Append(F[i - 1], [type |-> type, name |-> Input[i].name])
                 ELSE F[i - 1]
    IN  F[Len(Input)]

DistinctTtls(recs) == {recs[i].ttl : i \in 1..Len(recs)}

\* number of places where the string part occurs in the string s
Occurrences(s, part) ==
    Cardinality({i \in 1..Len(s) : /\ i + Len(part) - 1 <= Len(s)
                                   /\ SubSeq(s, i, i + Len(part) - 1) = part})

CeilDiv(a, b) == (a + b - 1) \div b

----------------------------------------------------------------------------
(* C1: every run that ends in a fatal condition (zone not found, or a CNAME   *)
(* group of more than one record) leaves no partial output: the output file   *)
(* has not been created or truncated and no block has been written to it.     *)
C1_NoPartialOutput == pc = "failed" => (~fileOpen /\ file = <<>>)

----------------------------------------------------------------------------
(* C2: group_records_by_type_name puts every input record in exactly one      *)
(* group, keyed by (record.type, record.name); no record is lost or           *)
(* duplicated and each group keeps the input order of its records.            *)
C2_Grouping ==
    Grouped =>
        /\ \A i, j \in 1..Len(grouped) : grouped[i].key = grouped[j].key => i = j
        /\ \A i \in 1..Len(grouped) :
              /\ \A m, n \in 1..Len(grouped[i].val) :
                    grouped[i].val[m].key = grouped[i].val[n].key => m = n
              /\ \A m \in 1..Len(grouped[i].val) :
                    /\ grouped[i].val[m].val # <<>>
                    /\ grouped[i].val[m].val
                          = Members(grouped[i].key, grouped[i].val[m].key)
        /\ \A k \in 1..Len(Input) :
              \E i \in 1..Len(grouped) :
                 /\ grouped[i].key = Input[k].type
                 /\ \E m \in 1..Len(grouped[i].val) :
                       grouped[i].val[m].key = Input[k].name

\* two different records of one group with a record of another group between them
C2_Witness ==
    /\ pc = "open"
    /\ Len(Input) = 3
    /\ Input[1].type = Input[3].type /\ Input[1].name = Input[3].name
    /\ Input[1] # Input[3]
    /\ Input[2].type = Input[1].type /\ Input[2].name # Input[1].name
    /\ Len(grouped) = 1 /\ Len(grouped[1].val) = 2

----------------------------------------------------------------------------
(* C3: the TTL get_ttl resolves for a group is the ttl of the group's first   *)
(* record (ttls [300, 600] resolve to 300), and a TTL-conflict warning is     *)
(* emitted exactly when the group holds more than one distinct ttl, and then  *)
(* exactly once.                                                              *)
C3_FirstTtl ==
    \A t \in {"A", "MX", "TXT"} :
       \A k \in 1..Len(Input) :
          Input[k].type = t =>
             LET group == Members(t, Input[k].name)
                 blocks == BlocksFor(t, Input[k].name)
                 warnings == SelectSeq(log, LAMBDA e : /\ e.what = "multiple_ttls"
                                                       /\ e.records = group)
             IN  blocks # <<>> =>
                    /\ blocks[1].ttl = group[1].ttl
                    /\ Len(warnings) = IF Cardinality(DistinctTtls(group)) > 1 THEN 1 ELSE 0

----------------------------------------------------------------------------
(* C4: a completed run has written the zone block, then the A blocks, then    *)
(* the CNAME, MX and TXT blocks, one block per (type, name) group, the blocks *)
(* of one type in the order the names first appear in the input.              *)
C4_BlockOrder ==
    pc = "done" =>
        LET expected == FirstAppearances("A") \o FirstAppearances("CNAME")
                            \o FirstAppearances("MX") \o FirstAppearances("TXT")
        IN  /\ Len(file) = 1 + Len(expected)
            /\ file[1] = terraform_zone_stanza(zone_url)
            /\ \A k \in 1..Len(expected) :
                  /\ file[k + 1].kind = "google_dns_record_set"
                  /\ file[k + 1].type = expected[k].type
                  /\ file[k + 1].name
                        = godaddy_to_url(expected[k].name, zone_url, FALSE, FALSE, TRUE)

\* two blocks of one type written in first-appearance order, then another type
C4_Witness ==
    /\ pc = "done"
    /\ Len(file) = 4
    /\ file[2].type = "A" /\ file[3].type = "A" /\ file[4].type = "TXT"
    /\ Input[1].name = <<"w">> /\ Input[1].type = "TXT"
    /\ Input[2].name = <<"w">> /\ Input[2].type = "A"
    /\ Input[3].name = AT /\ Input[3].type = "A"

----------------------------------------------------------------------------
(* C5: any two distinct (type, name) groups rendered into one artifact get    *)
(* different resource identifiers: no two record-set blocks share one.        *)
C5_UniqueIds ==
    \A i, j \in 1..Len(file) :
       (/\ file[i].kind = "google_dns_record_set"
        /\ file[j].kind = "google_dns_record_set"
        /\ file[i].resource = file[j].resource) => i = j

----------------------------------------------------------------------------
(* Vocabulary of C6: the identifier the claim describes *)
C6_TypeSuffix(type) ==
    CASE type = "A" -> <<"-", "a">>
      [] type = "CNAME" -> <<"-", "c", "n", "a", "m", "e">>
      [] type = "MX" -> <<"-", "m", "x">>
      [] type = "TXT" -> <<"-", "t", "x", "t">>

C6_Composed(name) == IF name = AT THEN zone_url ELSE name \o DOT \o zone_url

C6_Dashed(s) == [i \in 1..Len(s) |-> IF s[i] \in {".", "_"} THEN "-" ELSE s[i]]

(* C6: the record-resource identifier is the composed name with every '.' and *)
(* every '_' replaced by '-' (same length, nothing removed) followed by the   *)
(* type suffix; the zone identifier is the zone name with every '.' replaced  *)
(* by '-'.                                                                    *)
C6_Identifiers ==
    /\ \A k \in 1..Len(file) :
          file[k].kind = "google_dns_managed_zone" =>
             file[k].resource = [i \in 1..Len(zone_url) |->
                                    IF zone_url[i] = "." THEN "-" ELSE zone_url[i]]
    /\ \A k \in 1..Len(Input) :
          \A b \in Range(BlocksFor(Input[k].type, Input[k].name)) :
             b.resource = C6_Dashed(C6_Composed(Input[k].name)) \o C6_TypeSuffix(b.type)

----------------------------------------------------------------------------
(* Vocabulary of C7: the length of the escaped literal \"<value>\" *)
C7_EscapedLen(payload) ==
    Len(payload) + 2 * Len(ESC_QUOTE) + Cardinality({i \in 1..Len(payload) : payload[i] = "\""})

(* C7: convert_data_for_TXT splits the escaped literal \"<value>\" (length L, *)
(* embedded quotes escaped) at 255-character offsets, so the result holds     *)
(* exactly ceil(L/255) - 1 internal delimiters (none when L < 255, one when   *)
(* L = 510), inside one outer pair of quotes.                                 *)
C7_Chunks ==
    \A k \in 1..Len(Input) :
       (Input[k].type = "TXT" /\ Input[k].data # AT) =>
          LET group == Members("TXT", Input[k].name)
              blocks == BlocksFor("TXT", Input[k].name)
          IN  blocks # <<>> =>
                 \A i \in 1..Len(group) :
                    LET out == blocks[1].rrdatas[i]
                        L == C7_EscapedLen(group[i].data)
                    IN  /\ out[1] = "\"" /\ out[Len(out)] = "\""
                        /\ Occurrences(out, TXT_DELIMITER) = CeilDiv(L, ChunkLen) - 1

----------------------------------------------------------------------------
(* Vocabulary of C8: a CNAME target in absolutized rrdata form *)
C8_Target(data) ==
    IF data = AT THEN TF_VAR_PREFIX \o zone_url_to_name(zone_url) \o TF_VAR_SUFFIX
    ELSE data \o DOT

(* C8: terraform_CNAME_record_set raises for every group of more than one     *)
(* record and renders every group of exactly one record with that record's    *)
(* own ttl and its target in absolutized rrdata form; in an export run the    *)
(* failure is fatal and no later group is rendered.                           *)
C8_CnameCardinality ==
    (pc \in {"MX", "TXT", "warn", "done"} \/ CnameAborted) =>
        LET names == FirstAppearances("CNAME")
            bad == {k \in 1..Len(names) : Len(Members("CNAME", names[k].name)) > 1}
        IN  /\ CnameAborted <=> bad # {}
            /\ \A k \in 1..Len(names) :
                  LET group == Members("CNAME", names[k].name)
                      blocks == BlocksFor("CNAME", names[k].name)
                  IN  IF \E j \in bad : j <= k
                      THEN blocks = <<>>
                      ELSE /\ Len(blocks) = 1
                           /\ blocks[1].ttl = group[1].ttl
                           /\ blocks[1].rrdatas = <<C8_Target(group[1].data)>>
            /\ CnameAborted =>
                  \A i \in 1..Len(file) :
                     file[i].kind = "google_dns_record_set" => file[i].type \in {"A", "CNAME"}

\* a one-record group was rendered, then a two-record group aborted the run
C8_Witness ==
    /\ CnameAborted
    /\ Len(BlocksFor("CNAME", AT)) = 1
    /\ Len(Members("CNAME", <<"w">>)) = 2
    /\ Len(file) = 2

----------------------------------------------------------------------------
(* C9: terraform_MX_record_set emits one rrdata entry "<priority> <target>."  *)
(* per record, by ascending priority, records of equal priority in their      *)
(* group order.                                                               *)
C9_MxOrder ==
    \A k \in 1..Len(Input) :
       Input[k].type = "MX" =>
          LET group == Members("MX", Input[k].name)
              blocks == BlocksFor("MX", Input[k].name)
              Position(i) ==
                  1 + Cardinality({j \in 1..Len(group) :
                                      \/ group[j].priority < group[i].priority
                                      \/ /\ group[j].priority = group[i].priority
                                         /\ j < i})
          IN  /\ pc \in {"TXT", "warn", "done"} => Len(blocks) = 1
              /\ blocks # <<>> =>
                    /\ Len(blocks[1].rrdatas) = Len(group)
                    /\ \A i \in 1..Len(group) :
                          blocks[1].rrdatas[Position(i)]
                             = ToDecimal(group[i].priority) \o <<" ">> \o group[i].data \o DOT

\* priorities [20, 10, 10] with data [b, a, c] rendered as 10 a., 10 c., 20 b.
C9_Witness ==
    /\ pc = "done"
    /\ Len(Input) = 3
    /\ \A k \in 1..3 : Input[k].type = "MX"
    /\ <<Input[1].priority, Input[2].priority, Input[3].priority>> = <<20, 10, 10>>
    /\ <<Input[1].data, Input[2].data, Input[3].data>> = <<<<"b">>, <<"a">>, <<"c">>>>
    /\ file[2].rrdatas = << <<"1", "0", " ", "a", ".">>,
                            <<"1", "0", " ", "c", ".">>,
                            <<"2", "0", " ", "b", ".">> >>

----------------------------------------------------------------------------
(* Vocabulary of C10 *)
C10_Rendered == {"A", "CNAME", "MX", "TXT"}

C10_Dropped == {Input[k].type : k \in 1..Len(Input)} \ C10_Rendered

\* records of unrendered types leave no block and are not what aborts a run
C10_NoBlockNoFailure ==
    /\ \A i \in 1..Len(file) :
          file[i].kind = "google_dns_record_set" => file[i].type \in C10_Rendered
    /\ Len(SelectSeq(file, LAMBDA b : b.kind = "google_dns_record_set"))
          <= Cardinality({<<Input[k].type, Input[k].name>> :
                             k \in {j \in 1..Len(Input) : Input[j].type \in C10_Rendered}})
    /\ CnameAborted =>
          \E k \in 1..Len(Input) :
             Input[k].type = "CNAME" /\ Len(Members("CNAME", Input[k].name)) > 1

\* one warning per dropped type but NS, listing that type's records; none else
C10_Warned ==
    /\ \A t \in C10_Dropped \ {"NS"} :
          \E i \in 1..Len(log) :
             /\ log[i].what = "no_logic" /\ log[i].record_type = t
             /\ \A j \in 1..Len(log) :
                   (log[j].what = "no_logic" /\ log[j].record_type = t) => j = i
             /\ LET listed == log[i].name_to_records
                IN  /\ \A m, n \in 1..Len(listed) : listed[m].key = listed[n].key => m = n
                    /\ \A m \in 1..Len(listed) :
                          listed[m].val # <<>> /\ listed[m].val = Members(t, listed[m].key)
                    /\ \A k \in 1..Len(Input) :
                          Input[k].type = t =>
                             \E m \in 1..Len(listed) : listed[m].key = Input[k].name
    /\ \A i \in 1..Len(log) :
          log[i].what = "no_logic" => log[i].record_type \in C10_Dropped \ {"NS"}

(* C10 as written: records of a type other than A, CNAME, MX and TXT never    *)
(* produce a block and never make the run fail; for each such type other than *)
(* NS present in the input one 'unsupported record type' warning lists the    *)
(* dropped records, in every run that fetched its records; NS records are     *)
(* dropped with no warning.                                                   *)
C10_WarnedInEveryRun ==
    /\ C10_NoBlockNoFailure
    /\ (pc = "done" \/ CnameAborted) => C10_Warned

(* C10 as amended: records of a type other than A, CNAME, MX and TXT never    *)
(* produce a block and never make the run fail; in every run the              *)
(* multiple-CNAME error does not abort, each such type other than NS gets one *)
(* warning listing the dropped records and NS gets none; an aborted run emits *)
(* no such warning.                                                           *)
C10_WarnedInCompletedRuns ==
    /\ C10_NoBlockNoFailure
    /\ pc = "done" => C10_Warned
    /\ pc # "done" => \A i \in 1..Len(log) : log[i].what # "no_logic"

\* a completed run over NS, SRV and A records: one block, one warning, for SRV
C10_Witness ==
    /\ pc = "done"
    /\ {Input[k].type : k \in 1..Len(Input)} = {"A", "NS", "SRV"}
    /\ Len(file) = 2
    /\ Len(SelectSeq(log, LAMBDA e : e.what = "no_logic")) = 1

====
